---- MODULE Spec2Model ----
(***************************************************************************)
(* Put-call parity checker: the parity computation (src/parity/parity.py)  *)
(* and the batch pipeline around it (src/main_parity.py, parity/data.py).  *)
(*                                                                         *)
(* Numbers.  A Python value that the code treats as a price is modelled as *)
(* a record [k, v]: k = "none" (None), "nan" (float NaN), "inf" (an        *)
(* infinity, v = 1 or -1) or "num" (a finite number, v).  Money is counted *)
(* in units of 1/CentUnits cent, so that the mean of two whole-cent quotes,*)
(* the stock half spread and the discounted strike are all exact integers. *)
(* Floating-point rounding is not modelled.                                *)
(*                                                                         *)
(* Rates are in percent per year (r = 5 is 0.05), times in hundredths of a *)
(* year (tau = 25 is 0.25), so r * tau is in units of 1/ExpScale.          *)
(***************************************************************************)
EXTENDS Integers, Sequences, FiniteSets, TLC

VARIABLES
    pc,              \* position of the running entry point
    row,             \* the chain row handed to compute_row
    common,          \* the market context handed to compute_row
    pi,              \* the ParityInputs in use
    direction_hint,  \* the hint handed to parity_gap_executable
    result,          \* gap_mid, gap_exec and the branch flags go_A, go_B
    args,            \* the command line: expiries, min_dte, max_dte, rf_override
    all_exps,        \* the provider's expiry listing (each expiry by its dte)
    expiries,        \* choose_expiries' result
    rf,              \* the risk-free rate in use
    rf_source,       \* where rf came from
    spot,            \* the last close of the underlying
    div_series,      \* the underlying's dividends
    idx,             \* main's loop position in expiries
    chain,           \* the option chain process_expiry loaded last
    part,            \* the rows process_expiry returned last
    n_rows,          \* the number of rows collected in all_parts
    n_skipped,       \* the number of expiries that contributed no part
    files,           \* the per-expiry and combined files written
    err              \* the exception that ended the run, if any

vars == <<pc, row, common, pi, direction_hint, result, args, all_exps,
          expiries, rf, rf_source, spot, div_series, idx, chain, part,
          n_rows, n_skipped, files, err>>

rowVars == <<row, common, pi, direction_hint, result>>
mainVars == <<args, all_exps, expiries, rf, rf_source, spot, div_series,
              idx, chain, part, n_rows, n_skipped, files, err>>

----------------------------------------------------------------------------
(* Fixed-point scales *)

ExpScale == 100 * 100
CentUnits == 2 * ExpScale
Cents(c) == c * CentUnits

----------------------------------------------------------------------------
(* Python values *)

None == [k |-> "none", v |-> 0]
NaN == [k |-> "nan", v |-> 0]
PInf == [k |-> "inf", v |-> 1]
NInf == [k |-> "inf", v |-> -1]
Num(n) == [k |-> "num", v |-> n]

isfinite(x) == x.k = "num"

\* bool(x): None and 0.0 are false, every other float (NaN included) is true
Truthy(x) == ~(x.k = "none" \/ (x.k = "num" /\ x.v = 0))

\* x or y
Or(x, y) == IF Truthy(x) THEN x ELSE y

\* a slip: >= in the place of >
Gt0_or_equal(x) == (x.k = "num" /\ x.v >= 0) \/ (x.k = "inf" /\ x.v > 0)

\* x is not None and x > 0, x is not None and x < 0; every comparison with
\* NaN is false
Gt0(x) == (x.k = "num" /\ x.v > 0) \/ (x.k = "inf" /\ x.v > 0)
Lt0(x) == (x.k = "num" /\ x.v < 0) \/ (x.k = "inf" /\ x.v < 0)

Neg(x) ==
    CASE x.k = "num" -> Num(-x.v)
      [] x.k = "inf" -> [k |-> "inf", v |-> -x.v]
      [] OTHER -> x

Add(x, y) ==
    CASE x.k = "nan" \/ y.k = "nan" -> NaN
      [] x.k = "inf" /\ y.k = "inf" -> IF x.v = y.v THEN x ELSE NaN
      [] x.k = "inf" -> x
      [] y.k = "inf" -> y
      [] OTHER -> Num(x.v + y.v)

Sub(x, y) == Add(x, Neg(y))

\* 0.5 * x
Half(x) == IF x.k = "num" THEN Num(x.v \div 2) ELSE x

\* x * f for a finite positive factor f / ExpScale
Scale(x, f) == IF x.k = "num" THEN Num((x.v \div ExpScale) * f) ELSE x

\* math.exp(x / ExpScale) * ExpScale, by the Taylor series up to order two
MathExp(x) == ExpScale + x + ((x * x) \div (2 * ExpScale))

----------------------------------------------------------------------------
(* parity.py *)

UsableQuote(v) == v.k # "none" /\ isfinite(v) /\ v.v > 0

\* a slip: one usable side taken as the mid
_safe_mid_any_side(bid, ask, last) ==
    LET vals == SelectSeq(<<bid, ask>>, UsableQuote)
    IN  IF Len(vals) = 2 THEN Half(Add(vals[1], vals[2]))
        ELSE IF Len(vals) = 1 THEN vals[1]
        ELSE IF UsableQuote(last) THEN last
        ELSE NaN

_safe_mid(bid, ask, last) ==
    LET vals == SelectSeq(<<bid, ask>>, UsableQuote)
    IN  IF Len(vals) = 2 THEN Half(Add(vals[1], vals[2]))
        ELSE IF UsableQuote(last) THEN last
        ELSE NaN

\* a slip: the dividends added
theoretical_rhs_div_added(S, K, tau, r, pv_div) ==
    Add(Sub(S, Scale(K, MathExp(-(r * tau)))), pv_div)

theoretical_rhs(S, K, tau, r, pv_div) ==
    Sub(Sub(S, Scale(K, MathExp(-(r * tau)))), pv_div)

parity_gap_mid(p) ==
    Sub(Sub(p.C_mid, p.P_mid), theoretical_rhs(p.S, p.K, p.tau, p.r, p.pv_div))

\* a slip: the full spread, / 100.0
StockHalfSpread_full(p) ==
    LET c == Or(p.stock_spread_cents, Num(1))
    IN  IF c.k = "num" THEN Num(c.v * CentUnits) ELSE c

\* (stock_spread_cents or 1.0) / 200.0, in money units
StockHalfSpread(p) ==
    LET c == Or(p.stock_spread_cents, Num(1))
    IN  IF c.k = "num" THEN Num(c.v * ExpScale) ELSE c

\* a slip: gap_mid computed whether or not a hint is given
DirectionGapMid_always(p, hint) == parity_gap_mid(p)

\* parity_gap_mid(pi) if direction_hint is None else None
DirectionGapMid(p, hint) ==
    IF hint = "None" THEN parity_gap_mid(p) ELSE None

parity_gap_executable(p, hint) ==
    LET half == StockHalfSpread(p)
        S_bid == Sub(p.S, half)
        S_ask == Add(p.S, half)
        gap_mid == DirectionGapMid(p, hint)
        go_A == Gt0(gap_mid) \/ hint = "A"
        go_B == Lt0(gap_mid) \/ hint = "B"
        disc == Scale(p.K, MathExp(-(p.r * p.tau)))
        gapA == Sub(Sub(Or(p.C_bid, Num(0)), Or(p.P_ask, Num(0))),
                    Sub(Sub(S_ask, disc), p.pv_div))
        gapB == Sub(Sub(Sub(S_bid, disc), p.pv_div),
                    Sub(Or(p.C_ask, Num(0)), Or(p.P_bid, Num(0))))
    IN  [gap_exec |-> IF go_A THEN gapA ELSE IF go_B THEN gapB ELSE Num(0),
         go_A |-> go_A, go_B |-> go_B]

\* a slip: an unknown mid entered as zero
ParityInputs_zero_mid(r, c) ==
    LET C_mid == _safe_mid(r.call_bid, r.call_ask, r.call_lastPrice)
        P_mid == _safe_mid(r.put_bid, r.put_ask, r.put_lastPrice)
    IN  [S |-> c.S, K |-> r.strike, tau |-> c.tau, r |-> c.r,
         C_mid |-> IF isfinite(C_mid) THEN C_mid ELSE Num(0),
         P_mid |-> IF isfinite(P_mid) THEN P_mid ELSE Num(0),
         C_bid |-> Or(r.call_bid, NaN),
         C_ask |-> Or(r.call_ask, NaN),
         P_bid |-> Or(r.put_bid, NaN),
         P_ask |-> Or(r.put_ask, NaN),
         pv_div |-> Or(c.pv_div, Num(0)),
         stock_spread_cents |-> Or(c.stock_spread_cents, Num(1))]

\* a slip: the call's bid and ask exchanged
ParityInputs_swapped(r, c) ==
    LET C_mid == _safe_mid(r.call_bid, r.call_ask, r.call_lastPrice)
        P_mid == _safe_mid(r.put_bid, r.put_ask, r.put_lastPrice)
    IN  [S |-> c.S, K |-> r.strike, tau |-> c.tau, r |-> c.r,
         C_mid |-> IF isfinite(C_mid) THEN C_mid ELSE NaN,
         P_mid |-> IF isfinite(P_mid) THEN P_mid ELSE NaN,
         C_bid |-> Or(r.call_ask, NaN),
         C_ask |-> Or(r.call_bid, NaN),
         P_bid |-> Or(r.put_bid, NaN),
         P_ask |-> Or(r.put_ask, NaN),
         pv_div |-> Or(c.pv_div, Num(0)),
         stock_spread_cents |-> Or(c.stock_spread_cents, Num(1))]

ParityInputs(r, c) ==
    LET C_mid == _safe_mid(r.call_bid, r.call_ask, r.call_lastPrice)
        P_mid == _safe_mid(r.put_bid, r.put_ask, r.put_lastPrice)
    IN  [S |-> c.S, K |-> r.strike, tau |-> c.tau, r |-> c.r,
         C_mid |-> IF isfinite(C_mid) THEN C_mid ELSE NaN,
         P_mid |-> IF isfinite(P_mid) THEN P_mid ELSE NaN,
         C_bid |-> Or(r.call_bid, NaN),
         C_ask |-> Or(r.call_ask, NaN),
         P_bid |-> Or(r.put_bid, NaN),
         P_ask |-> Or(r.put_ask, NaN),
         pv_div |-> Or(c.pv_div, Num(0)),
         stock_spread_cents |-> Or(c.stock_spread_cents, Num(1))]

compute_row(r, c) ==
    LET p == ParityInputs(r, c)
        ex == parity_gap_executable(p, "None")
    IN  [gap_mid |-> parity_gap_mid(p), gap_exec |-> ex.gap_exec,
         go_A |-> ex.go_A, go_B |-> ex.go_B]

----------------------------------------------------------------------------
(* data.py *)

\* the rate returned when ^IRX has no history: 0.03, in percent
RfDefault == 3

\* a slip: no rate in the place of the default
get_rf_irx_zero(irx) ==
    IF irx = <<>> THEN 0 ELSE irx[Len(irx)] \div 100

\* irx: the ^IRX closes of the last days, in hundredths of a percent
get_rf_irx(irx) ==
    IF irx = <<>> THEN RfDefault ELSE irx[Len(irx)] \div 100

\* max(delta.days, 0) / 365.25, in hundredths of a year
time_to_expiry_years(dte) ==
    ((IF dte > 0 THEN dte ELSE 0) * 10000) \div 36525

\* div: the dividends as <<[days, amt]>>, days counted from now
RECURSIVE pv_of_dividends(_, _, _)
pv_of_dividends(div, dte, r_annual) ==
    IF div = <<>> THEN 0
    ELSE LET d == Head(div)
             t == (d.days * 10000) \div 36525
             pv == (d.amt \div ExpScale) * MathExp(-(r_annual * t))
         IN  (IF d.days > 0 /\ d.days <= dte THEN pv ELSE 0)
             + pv_of_dividends(Tail(div), dte, r_annual)

----------------------------------------------------------------------------
(* main_parity.py *)

\* kept[:20]
MaxKept == 20

\* a slip: the lower bound of the window taken as exclusive
choose_expiries_strict(explicit, listing, min_dte, max_dte) ==
    IF explicit # <<>> THEN explicit
    ELSE LET InWindow(dte) == dte > min_dte /\ dte <= max_dte
             kept == SelectSeq(listing, InWindow)
         IN  SubSeq(kept, 1, IF Len(kept) < MaxKept THEN Len(kept) ELSE MaxKept)

\* an expiry is represented by its days to expiry, (expiry - now).days
choose_expiries(explicit, listing, min_dte, max_dte) ==
    IF explicit # <<>> THEN explicit
    ELSE LET InWindow(dte) == dte >= min_dte /\ dte <= max_dte
             kept == SelectSeq(listing, InWindow)
         IN  SubSeq(kept, 1, IF Len(kept) < MaxKept THEN Len(kept) ELSE MaxKept)

\* pd.merge(c, p, on="strike", how="inner"): the pairs of a call row and a
\* put row of the same strike, in the order of the call rows
JoinedRow(c, p) ==
    [strike |-> c.strike, call_bid |-> c.bid, call_ask |-> c.ask,
     call_lastPrice |-> c.lastPrice, put_bid |-> p.bid, put_ask |-> p.ask,
     put_lastPrice |-> p.lastPrice]

RECURSIVE MatchesOf(_, _)
MatchesOf(c, puts) ==
    IF puts = <<>> THEN <<>>
    ELSE (IF Head(puts).strike = c.strike
          THEN <<JoinedRow(c, Head(puts))>> ELSE <<>>)
         \o MatchesOf(c, Tail(puts))

RECURSIVE Merge(_, _)
Merge(calls, puts) ==
    IF calls = <<>> THEN <<>>
    ELSE MatchesOf(Head(calls), puts) \o Merge(Tail(calls), puts)

\* the rows process_expiry computes for a chain with both sides non-empty
ExpiryRows(ch, dte, S, rate, div, use_dividends, spread) ==
    LET tau == time_to_expiry_years(dte)
        pv_div == IF use_dividends THEN pv_of_dividends(div, dte, rate) ELSE 0
        df == Merge(ch.calls, ch.puts)
        cmn == [S |-> S, tau |-> tau, r |-> rate, pv_div |-> Num(pv_div),
                stock_spread_cents |-> spread]
    IN  [k \in 1..Len(df) |->
            LET m == compute_row(df[k], cmn)
            IN  [strike |-> df[k].strike, gap_mid |-> m.gap_mid,
                 gap_exec |-> m.gap_exec]]

----------------------------------------------------------------------------
(* Input domains *)

\* number of price steps above the lowest quoted price
MaxTick == 1

Dollars(d) == Num(Cents(100 * d))

\* quoted prices: 4.90, 5.10, ... for the call and 2.90, 3.10, ... for the put
CallPrices == {Num(Cents(490 + 20 * i)) : i \in 0..MaxTick}
PutPrices == {Num(Cents(290 + 20 * i)) : i \in 0..MaxTick}
CallLast == Num(Cents(500))
PutLast == Num(Cents(300))

\* a quote field the provider did not fill: absent, NaN or zero
Missing == {None, NaN, Num(0)}

Strikes == {Dollars(98), Dollars(100)}
RowStrikes == Strikes \cup {NaN}
Spot == Dollars(100)

Rows ==
    [strike : RowStrikes,
     call_bid : Missing \cup CallPrices, call_ask : Missing \cup CallPrices,
     call_lastPrice : {None, CallLast},
     put_bid : Missing \cup PutPrices, put_ask : Missing \cup PutPrices,
     put_lastPrice : {None, PutLast}]

Commons ==
    [S : {Spot}, tau : {0, 25}, r : {-5, 0, 5},
     pv_div : {Num(0), Num(Cents(50))},
     stock_spread_cents : {Num(0), Num(2)}]

NoRow ==
    [strike |-> None, call_bid |-> None, call_ask |-> None,
     call_lastPrice |-> None, put_bid |-> None, put_ask |-> None,
     put_lastPrice |-> None]
NoCommon ==
    [S |-> None, tau |-> 0, r |-> 0, pv_div |-> None,
     stock_spread_cents |-> None]
NoInputs ==
    [S |-> None, K |-> None, tau |-> 0, r |-> 0, C_mid |-> None,
     P_mid |-> None, C_bid |-> None, C_ask |-> None, P_bid |-> None,
     P_ask |-> None, pv_div |-> None, stock_spread_cents |-> None]
NoResult ==
    [gap_mid |-> None, gap_exec |-> None, go_A |-> FALSE, go_B |-> FALSE]
NoArgs ==
    [expiries |-> <<>>, min_dte |-> 0, max_dte |-> 0, rf_override |-> None,
     use_dividends |-> FALSE, stock_spread_cents |-> None]
NoChain == [calls |-> <<>>, puts |-> <<>>, has_strike |-> TRUE]

MainIdle ==
    /\ args = NoArgs /\ all_exps = <<>> /\ expiries = <<>>
    /\ rf = 0 /\ rf_source = "unset" /\ spot = None /\ div_series = <<>>
    /\ idx = 0 /\ chain = NoChain
    /\ part = <<>>
    /\ n_rows = 0 /\ n_skipped = 0 /\ files = {} /\ err = "none"

----------------------------------------------------------------------------
(* compute_row applied to one chain row *)

InitRow ==
    /\ pc = "row"
    /\ row \in Rows
    /\ common \in Commons
    /\ pi = NoInputs
    /\ direction_hint = "None"
    /\ result = NoResult
    /\ MainIdle

ComputeRow ==
    /\ pc = "row"
    /\ pi' = ParityInputs(row, common)
    /\ result' = compute_row(row, common)
    /\ pc' = "row_done"
    /\ UNCHANGED <<row, common, direction_hint>>
    /\ UNCHANGED mainVars

NextRow == ComputeRow

SpecRow == InitRow /\ [][NextRow]_vars

----------------------------------------------------------------------------
(* _safe_mid applied to one side's bid, ask and last *)

MidValues ==
    {None, NaN, PInf, NInf, Num(0), Num(-Cents(10)), CallLast} \cup CallPrices

InitMid ==
    /\ pc = "mid"
    /\ \E b \in MidValues, a \in MidValues, l \in MidValues :
         row = [NoRow EXCEPT !.call_bid = b, !.call_ask = a,
                             !.call_lastPrice = l]
    /\ common = NoCommon
    /\ pi = NoInputs
    /\ direction_hint = "None"
    /\ result = [mid |-> None]
    /\ MainIdle

SafeMid ==
    /\ pc = "mid"
    /\ result' = [mid |-> _safe_mid(row.call_bid, row.call_ask,
                                    row.call_lastPrice)]
    /\ pc' = "mid_done"
    /\ UNCHANGED <<row, common, pi, direction_hint>>
    /\ UNCHANGED mainVars

NextMid == SafeMid

SpecMid == InitMid /\ [][NextMid]_vars

----------------------------------------------------------------------------
(* parity_gap_executable applied to a ParityInputs and a direction hint *)

\* "None" is no hint; "C" stands for any string other than "A" and "B"
Hints == {"None", "A", "B", "C"}

ExecInputs ==
    [S : {Spot}, K : Strikes, tau : {0, 25}, r : {5},
     C_mid : {NaN} \cup CallPrices, P_mid : {NaN} \cup PutPrices,
     C_bid : Missing \cup {Num(Cents(490))},
     C_ask : Missing \cup {Num(Cents(510))},
     P_bid : Missing \cup {Num(Cents(290))},
     P_ask : Missing \cup {Num(Cents(310))},
     pv_div : {Num(0), Num(Cents(50))},
     stock_spread_cents : {Num(0), Num(2)}]

InitExec ==
    /\ pc = "exec"
    /\ row = NoRow
    /\ common = NoCommon
    /\ pi \in ExecInputs
    /\ direction_hint \in Hints
    /\ result = NoResult
    /\ MainIdle

GapExecutable ==
    /\ pc = "exec"
    /\ LET ex == parity_gap_executable(pi, direction_hint)
       IN  result' = [gap_mid |-> DirectionGapMid(pi, direction_hint),
                      gap_exec |-> ex.gap_exec,
                      go_A |-> ex.go_A, go_B |-> ex.go_B]
    /\ pc' = "exec_done"
    /\ UNCHANGED <<row, common, pi, direction_hint>>
    /\ UNCHANGED mainVars

NextExec == GapExecutable

SpecExec == InitExec /\ [][NextExec]_vars

----------------------------------------------------------------------------
(* choose_expiries applied to a command line and a provider listing *)

\* the longest provider listing, and the longest explicit list
MaxListing == 22

\* first, first + step, ...: n expiries a fixed number of days apart
Progression(first, step, n) == [i \in 1..n |-> first + (i - 1) * step]

Listings ==
    {Progression(f, s, n) : f \in {0, 6, 100}, s \in {-1, 1, 7},
                            n \in 0..MaxListing}

ExplicitLists ==
    {<<>>} \cup {Progression(3, 200, n) : n \in {1, MaxListing}}

ChooseArgs ==
    [expiries : ExplicitLists, min_dte : {7, 30}, max_dte : {6, 120},
     rf_override : {None}, use_dividends : {FALSE},
     stock_spread_cents : {Num(1)}]

InitChoose ==
    /\ pc = "choose"
    /\ row = NoRow /\ common = NoCommon /\ pi = NoInputs
    /\ direction_hint = "None" /\ result = NoResult
    /\ args \in ChooseArgs
    /\ all_exps \in Listings
    /\ expiries = <<>>
    /\ rf = 0 /\ rf_source = "unset" /\ spot = None /\ div_series = <<>>
    /\ idx = 0 /\ chain = NoChain /\ part = <<>>
    /\ n_rows = 0 /\ n_skipped = 0 /\ files = {} /\ err = "none"

ChooseExpiries ==
    /\ pc = "choose"
    /\ expiries' = choose_expiries(args.expiries, all_exps, args.min_dte,
                                   args.max_dte)
    /\ pc' = "chosen"
    /\ UNCHANGED rowVars
    /\ UNCHANGED <<args, all_exps, rf, rf_source, spot, div_series, idx,
                   chain, part, n_rows, n_skipped, files, err>>

NextChoose == ChooseExpiries

SpecChoose == InitChoose /\ [][NextChoose]_vars

----------------------------------------------------------------------------
(* main: one run of the batch pipeline for a ticker *)

\* the longest provider listing of a run
MaxExpiries == 2
MainListings ==
    {Progression(f, 7, n) : f \in {0, 7}, n \in 0..MaxExpiries}

MainArgs ==
    [expiries : {<<>>, <<3>>}, min_dte : {7}, max_dte : {120},
     rf_override : {None, Num(0), Num(5)}, use_dividends : BOOLEAN,
     stock_spread_cents : {Num(1)}]

DivSeries == {<<>>, <<[days |-> 5, amt |-> Cents(50)]>>}
IrxHistories == {<<>>, <<480, 500>>}

\* the strikes one side of a chain lists, in ascending order
StrikeLists ==
    {<<>>, <<Dollars(98)>>, <<Dollars(100)>>, <<Dollars(98), Dollars(100)>>}

\* the calls of a chain: every strike quoted alike, the bid missing or not
CallRows(ks, bid) ==
    [i \in 1..Len(ks) |->
        [strike |-> ks[i], bid |-> bid, ask |-> Num(Cents(510)),
         lastPrice |-> CallLast]]
PutRows(ks) ==
    [i \in 1..Len(ks) |->
        [strike |-> ks[i], bid |-> Num(Cents(290)), ask |-> Num(Cents(310)),
         lastPrice |-> None]]

\* has_strike: whether the provider's tables carry the strike column
Chains ==
    {[calls |-> CallRows(cs, b), puts |-> PutRows(ps), has_strike |-> h] :
        cs \in StrikeLists, ps \in StrikeLists,
        b \in {NaN, Num(Cents(490))}, h \in BOOLEAN}

Init ==
    /\ pc = "spot"
    /\ row = NoRow /\ common = NoCommon /\ pi = NoInputs
    /\ direction_hint = "None" /\ result = NoResult
    /\ args \in MainArgs
    /\ all_exps = <<>> /\ expiries = <<>>
    /\ rf = 0 /\ rf_source = "unset" /\ spot = None /\ div_series = <<>>
    /\ idx = 0 /\ chain = NoChain /\ part = <<>>
    /\ n_rows = 0 /\ n_skipped = 0 /\ files = {} /\ err = "none"

Fail(e) ==
    /\ pc' = "failed"
    /\ err' = e

\* [1/5] get_spot_and_dividends
FetchSpot ==
    /\ pc = "spot"
    /\ \/ /\ Fail("RuntimeError: No price history")
          /\ UNCHANGED <<spot, div_series>>
       \/ /\ spot' = Spot
          /\ div_series' \in DivSeries
          /\ pc' = "pick"
          /\ err' = err
    /\ UNCHANGED rowVars
    /\ UNCHANGED <<args, all_exps, expiries, rf, rf_source, idx, chain, part,
                   n_rows, n_skipped, files>>

\* [2/5] choose_expiries, and the exit when it selects nothing
PickExpiries ==
    /\ pc = "pick"
    /\ \E listing \in MainListings :
         /\ all_exps' = IF args.expiries # <<>> THEN all_exps ELSE listing
         /\ expiries' = choose_expiries(args.expiries, all_exps',
                                        args.min_dte, args.max_dte)
    /\ IF expiries' = <<>>
       THEN Fail("SystemExit: No expiries selected")
       ELSE pc' = "rate" /\ err' = err
    /\ UNCHANGED rowVars
    /\ UNCHANGED <<args, rf, rf_source, spot, div_series, idx, chain, part,
                   n_rows, n_skipped, files>>

\* [3/5] the override, or get_rf_irx
GetRate ==
    /\ pc = "rate"
    /\ IF args.rf_override # None
       THEN rf' = args.rf_override.v /\ rf_source' = "override"
       ELSE \E irx \in IrxHistories :
              /\ rf' = get_rf_irx(irx)
              /\ rf_source' = IF irx = <<>> THEN "default" ELSE "irx"
    /\ pc' = "process"
    /\ idx' = 1
    /\ UNCHANGED rowVars
    /\ UNCHANGED <<args, all_exps, expiries, spot, div_series, chain, part,
                   n_rows, n_skipped, files, err>>

ExpiryFile(e) == [kind |-> "expiry", expiry |-> e]
CombinedFile == [kind |-> "combined", expiry |-> 0]
SummaryFile == [kind |-> "summary", expiry |-> 0]

\* [4/5] one turn of the loop: process_expiry and the collection of its part
ProcessExpiry ==
    /\ pc = "process"
    /\ idx <= Len(expiries)
    /\ \E ch \in Chains :
         /\ chain' = ch
         /\ IF ch.calls = <<>> \/ ch.puts = <<>>
            THEN /\ part' = <<>>
                 /\ files' = files
                 /\ pc' = pc /\ err' = err
            ELSE IF ~ch.has_strike
            THEN /\ Fail("KeyError: strike")
                 /\ UNCHANGED <<part, files>>
            ELSE /\ part' = ExpiryRows(ch, expiries[idx], spot, rf, div_series,
                                       args.use_dividends,
                                       args.stock_spread_cents)
                 /\ files' = files \cup {ExpiryFile(expiries[idx])}
                 /\ pc' = pc /\ err' = err
    /\ IF pc' = "failed"
       THEN UNCHANGED <<idx, n_rows, n_skipped>>
       ELSE /\ idx' = idx + 1
            /\ n_rows' = n_rows + Len(part')
            /\ n_skipped' = n_skipped + (IF part' = <<>> THEN 1 ELSE 0)
    /\ UNCHANGED rowVars
    /\ UNCHANGED <<args, all_exps, expiries, rf, rf_source, spot, div_series>>

\* the exit when no part has rows; otherwise the combined file and [5/5]
Combine ==
    /\ pc = "process"
    /\ idx > Len(expiries)
    /\ IF n_rows = 0
       THEN Fail("SystemExit: No option rows produced") /\ files' = files
       ELSE /\ files' = files \cup {CombinedFile, SummaryFile}
            /\ pc' = "done"
            /\ err' = err
    /\ UNCHANGED rowVars
    /\ UNCHANGED <<args, all_exps, expiries, rf, rf_source, spot, div_series,
                   idx, chain, part, n_rows, n_skipped>>

Next ==
    \/ FetchSpot
    \/ PickExpiries
    \/ GetRate
    \/ ProcessExpiry
    \/ Combine

Spec == Init /\ [][Next]_vars

----------------------------------------------------------------------------
(* Properties *)

\* present, finite and strictly positive
PosFinite(x) == x.k = "num" /\ x.v > 0

Abs(n) == IF n < 0 THEN -n ELSE n

\* K * exp(-r * tau) for a finite strike
Discounted(K, r, tau) == (K.v \div ExpScale) * MathExp(-(r * tau))

CallMid == _safe_mid(row.call_bid, row.call_ask, row.call_lastPrice)
PutMid == _safe_mid(row.put_bid, row.put_ask, row.put_lastPrice)

\* C1: _safe_mid returns the mean of bid and ask when both are present,
\* finite and positive, whatever last is; otherwise last when last is present,
\* finite and positive; otherwise NaN. It never returns zero, and never uses
\* a single usable side as the mid.
C1_SafeMidRule ==
    pc = "mid_done" =>
        LET b == row.call_bid
            a == row.call_ask
            l == row.call_lastPrice
            m == result.mid
            both == PosFinite(b) /\ PosFinite(a)
        IN  /\ both => (m.k = "num" /\ 2 * m.v = b.v + a.v)
            /\ (~both /\ PosFinite(l)) => m = l
            /\ (~both /\ ~PosFinite(l)) => m = NaN
            /\ m # Num(0)

\* C1 witness: a positive bid with a zero ask and a positive last gave last
C1_OneSideWitness ==
    /\ pc = "mid_done"
    /\ PosFinite(row.call_bid)
    /\ row.call_ask = Num(0)
    /\ PosFinite(row.call_lastPrice)
    /\ row.call_lastPrice # row.call_bid
    /\ result.mid = row.call_lastPrice

\* C2: where both mids are known (and the strike is finite), compute_row's
\* gap_mid is (C_mid - P_mid) - (S - K*exp(-r*tau) - pv_div); with pv_div = 0
\* and tau = 0 or r = 0 that is (C_mid - P_mid) - (S - K).
C2_GapMidFormula ==
    (pc = "row_done" /\ isfinite(CallMid) /\ isfinite(PutMid)
       /\ isfinite(row.strike)) =>
        LET lhs == CallMid.v - PutMid.v
            K == row.strike
        IN  /\ result.gap_mid =
                 Num(lhs - (common.S.v - Discounted(K, common.r, common.tau)
                            - common.pv_div.v))
            /\ (common.pv_div.v = 0 /\ (common.tau = 0 \/ common.r = 0)) =>
                 result.gap_mid = Num(lhs - (common.S.v - K.v))

\* C2 witness: a row with both mids known, a positive time to expiry and a
\* zero rate, whose gap_mid is the undiscounted one
C2_CollapseWitness ==
    /\ pc = "row_done"
    /\ isfinite(CallMid) /\ isfinite(PutMid) /\ isfinite(row.strike)
    /\ common.tau > 0 /\ common.r = 0 /\ common.pv_div.v = 0
    /\ result.gap_mid = Num((CallMid.v - PutMid.v)
                            - (common.S.v - row.strike.v))

\* C3: with a finite strike, gap_mid is unknown exactly when the call mid or
\* the put mid is unknown, and is a finite number otherwise.
C3_GapMidUnknownIff ==
    (pc = "row_done" /\ isfinite(row.strike)) =>
        /\ (result.gap_mid = NaN) <=> (CallMid = NaN \/ PutMid = NaN)
        /\ (result.gap_mid # NaN) => isfinite(result.gap_mid)

\* C3 witness: an unknown call mid beside a known put mid gave an unknown
\* gap_mid
C3_UnknownMidWitness ==
    /\ pc = "row_done"
    /\ isfinite(row.strike)
    /\ CallMid = NaN
    /\ isfinite(PutMid)
    /\ result.gap_mid = NaN

\* C4: without a hint, a gap_mid of exactly zero or unknown gives a gap_exec
\* of exactly 0.0, whatever the quotes and the stock spread.
C4_NoTradeDefault ==
    (pc = "exec_done" /\ direction_hint = "None"
       /\ (result.gap_mid = Num(0) \/ result.gap_mid = NaN)) =>
        result.gap_exec = Num(0)

\* C4 witness: no hint, a gap_mid of exactly zero, all four quotes and a
\* two-cent stock spread present
C4_ZeroGapWitness ==
    /\ pc = "exec_done"
    /\ direction_hint = "None"
    /\ result.gap_mid = Num(0)
    /\ PosFinite(pi.C_bid) /\ PosFinite(pi.C_ask)
    /\ PosFinite(pi.P_bid) /\ PosFinite(pi.P_ask)
    /\ pi.stock_spread_cents = Num(2)
    /\ result.gap_exec = Num(0)

\* C5: a hint A or B selects that direction whatever gap_mid is; without a
\* hint, A is selected exactly when gap_mid > 0 and B exactly when
\* gap_mid < 0; A and B are never both selected.
C5_DirectionSelection ==
    pc = "exec_done" =>
        /\ direction_hint = "A" => (result.go_A /\ ~result.go_B)
        /\ direction_hint = "B" => (result.go_B /\ ~result.go_A)
        /\ direction_hint = "None" =>
             LET g == parity_gap_mid(pi)
             IN  /\ result.go_A <=> (g.k = "num" /\ g.v > 0)
                 /\ result.go_B <=> (g.k = "num" /\ g.v < 0)
        /\ ~(result.go_A /\ result.go_B)

\* C5 witness: hint A was followed although gap_mid is negative
C5_HintAgainstSignWitness ==
    /\ pc = "exec_done"
    /\ direction_hint = "A"
    /\ parity_gap_mid(pi).k = "num"
    /\ parity_gap_mid(pi).v < 0
    /\ result.go_A
    /\ ~result.go_B

\* C6: with all four quotes present and stock_spread_cents > 0, direction A
\* returns (C_bid - P_ask) - ((S + half) - K*exp(-r*tau) - pv_div) and
\* direction B returns ((S - half) - K*exp(-r*tau) - pv_div) - (C_ask - P_bid),
\* half being stock_spread_cents / 200 dollars.
C6_ExecutableLegs ==
    (pc = "exec_done" /\ PosFinite(pi.C_bid) /\ PosFinite(pi.C_ask)
       /\ PosFinite(pi.P_bid) /\ PosFinite(pi.P_ask)
       /\ PosFinite(pi.stock_spread_cents)) =>
        LET half == (pi.stock_spread_cents.v * Cents(100)) \div 200
            disc == Discounted(pi.K, pi.r, pi.tau)
        IN  /\ result.go_A =>
                 result.gap_exec =
                   Num((pi.C_bid.v - pi.P_ask.v)
                       - ((pi.S.v + half) - disc - pi.pv_div.v))
            /\ result.go_B =>
                 result.gap_exec =
                   Num(((pi.S.v - half) - disc - pi.pv_div.v)
                       - (pi.C_ask.v - pi.P_bid.v))

\* C6 witness: direction B evaluated with four quotes and a two-cent spread
C6_DirectionBWitness ==
    /\ pc = "exec_done"
    /\ result.go_B
    /\ PosFinite(pi.C_bid) /\ PosFinite(pi.C_ask)
    /\ PosFinite(pi.P_bid) /\ PosFinite(pi.P_ask)
    /\ pi.stock_spread_cents = Num(2)
    /\ pi.pv_div.v > 0 /\ pi.tau > 0
    /\ isfinite(result.gap_exec)

\* C7: for every row with finite S, K, tau, r and pv_div, compute_row's
\* gap_exec is a finite number, a missing bid or ask entering the legs as 0.0.
C7_GapExecFinite ==
    (pc = "row_done" /\ isfinite(row.strike)) => isfinite(result.gap_exec)

\* The rows C9 speaks of: both sides quoted with 0 < bid <= ask, and the
\* strike and the stock spread as the data model has them (finite, > 0)
TwoSidedRow ==
    /\ PosFinite(row.call_bid) /\ PosFinite(row.call_ask)
    /\ row.call_bid.v <= row.call_ask.v
    /\ PosFinite(row.put_bid) /\ PosFinite(row.put_ask)
    /\ row.put_bid.v <= row.put_ask.v
    /\ isfinite(row.strike)
    /\ PosFinite(common.stock_spread_cents)

\* the half spreads of call, put and stock, summed
HalfSpreads ==
    (row.call_ask.v - row.call_bid.v) \div 2
    + (row.put_ask.v - row.put_bid.v) \div 2
    + (common.stock_spread_cents.v * Cents(100)) \div 200

\* C9 (as stated): on such rows gap_exec < |gap_mid| always.
C9_ExecBelowMidAlways ==
    (pc = "row_done" /\ TwoSidedRow) =>
        result.gap_exec.v < Abs(result.gap_mid.v)

\* C9 (amended): on such rows, when gap_mid # 0, gap_exec is |gap_mid| minus
\* the summed half spreads and so is below |gap_mid|; when gap_mid = 0,
\* gap_exec = 0 = |gap_mid|; gap_exec > 0 only if |gap_mid| exceeds the
\* summed half spreads.
C9_ExecIsMidLessSpreads ==
    (pc = "row_done" /\ TwoSidedRow) =>
        LET g == result.gap_mid.v
            x == result.gap_exec.v
        IN  /\ isfinite(result.gap_mid) /\ isfinite(result.gap_exec)
            /\ g # 0 => (x = Abs(g) - HalfSpreads /\ x < Abs(g))
            /\ g = 0 => x = 0
            /\ x > 0 => Abs(g) > HalfSpreads

\* C9 witness: a two-sided row with a negative gap_mid and a positive
\* gap_exec, the puts rich by more than the spreads
C9_PutsRichWitness ==
    /\ pc = "row_done"
    /\ TwoSidedRow
    /\ row.call_bid.v < row.call_ask.v
    /\ result.gap_mid.v < 0
    /\ result.gap_exec.v > 0
    /\ result.gap_exec.v = Abs(result.gap_mid.v) - HalfSpreads

\* C8 (as stated): a run that goes on to produce its output has skipped no
\* expiry and has put no default in the place of the rate.
C8_NoSilentSkipOrDefault ==
    pc = "done" => (n_skipped = 0 /\ rf_source # "default")

\* C8 (amended): no expiries selected, no rows produced by any expiry and a
\* chain without the strike column each end the run in an explicit failure
\* before the combined output is written; an expiry whose calls or puts are
\* empty yields no rows and no file and the loop goes on; a rate source
\* without data is replaced by the default rate 0.03.
C8_StructuralOutcomes ==
    /\ pc \in {"rate", "process", "done"} => expiries # <<>>
    /\ err = "SystemExit: No expiries selected" =>
         (pc = "failed" /\ expiries = <<>> /\ files = {})
    /\ pc = "done" => (n_rows > 0 /\ CombinedFile \in files /\ err = "none")
    /\ err = "SystemExit: No option rows produced" =>
         (pc = "failed" /\ n_rows = 0 /\ CombinedFile \notin files)
    /\ err = "KeyError: strike" =>
         (pc = "failed" /\ ~chain.has_strike /\ CombinedFile \notin files)
    /\ rf_source = "default" =>
         (rf = RfDefault /\ args.rf_override = None
            /\ pc \in {"process", "done", "failed"})
    /\ (pc = "process" /\ idx > 1
          /\ (chain.calls = <<>> \/ chain.puts = <<>>)) =>
         (part = <<>> /\ err = "none" /\ n_skipped > 0
            /\ ExpiryFile(expiries[idx - 1]) \notin files)

\* C8 witness: a run that wrote its combined output after it skipped an
\* expiry with an empty chain and took the default rate
C8_SkippedAndDefaultWitness ==
    /\ pc = "done"
    /\ n_skipped > 0
    /\ chain.calls = <<>>
    /\ rf_source = "default"
    /\ rf = RfDefault
    /\ CombinedFile \in files

\* the positions of the listing whose expiry lies in the DTE window
InWindowAt ==
    {i \in 1..Len(all_exps) :
        all_exps[i] >= args.min_dte /\ all_exps[i] <= args.max_dte}

\* C10: a non-empty explicit list is returned unchanged; otherwise the result
\* is, in listing order, the first 20 expiries with min_dte <= dte <= max_dte.
C10_ChooseExpiries ==
    pc = "chosen" =>
        IF args.expiries # <<>>
        THEN expiries = args.expiries
        ELSE /\ Len(expiries) <= 20
             /\ Len(expiries) =
                  (IF Cardinality(InWindowAt) < 20
                   THEN Cardinality(InWindowAt) ELSE 20)
             /\ \A k \in 1..Len(expiries) :
                  /\ expiries[k] >= args.min_dte
                  /\ expiries[k] <= args.max_dte
                  /\ \E i \in InWindowAt :
                       /\ Cardinality({j \in InWindowAt : j < i}) = k - 1
                       /\ expiries[k] = all_exps[i]

\* C10 witness: a listing with more than 20 expiries in the window, one of
\* them on each bound, cut to 20
C10_CapWitness ==
    /\ pc = "chosen"
    /\ args.expiries = <<>>
    /\ Cardinality(InWindowAt) > 20
    /\ Len(expiries) = 20
    /\ expiries[1] = args.min_dte
    /\ \E i \in InWindowAt : all_exps[i] \notin {expiries[k] : k \in 1..20}

====
